---------------------------- MODULE Spec2Model ----------------------------
(***************************************************************************)
(* A model of the conversational core of the nanoparticle prediction bot:  *)
(* the message router (bot/index.js), the Prediction flow                  *)
(* (predictionHandler.js), the Result-Entry flow (experimentHandler.js),   *)
(* the whitelist middleware and the parameter validator.                   *)
(*                                                                         *)
(* Every handler is an async function: it runs synchronously up to its     *)
(* next await, and handlers of different messages interleave at awaits.    *)
(* A handler in flight is a task; its pc names the await it is suspended   *)
(* at.  Each action below resumes one task from one await (or starts a     *)
(* task for an inbound message) and runs it to its next await.             *)
(***************************************************************************)
EXTENDS Integers, Sequences, FiniteSets, TLC

(***************************************************************************)
(* Bounds of the model.                                                    *)
(***************************************************************************)
\* handlers that may be in flight at the same time
MaxInFlight == 2
\* rows the Experiment table may hold
MaxExperiments == 2
\* inbound messages (commands and texts) the bot receives in one run
MaxMessages == 4

Users == {1, 2}
\* the administrator, who is whitelisted and manages the whitelist
Admin == 1

Tasks == 1..MaxInFlight
ExperimentIds == 1..MaxExperiments

(***************************************************************************)
(* JavaScript numbers.  A number is NaN, an infinity or a rational n/d in  *)
(* lowest terms with d > 0.  Null is the SQL NULL of an unset column.      *)
(***************************************************************************)
NaN == [k |-> "nan", n |-> 0, d |-> 1]
Null == [k |-> "null", n |-> 0, d |-> 1]
Infinity(sgn) == [k |-> "inf", n |-> sgn, d |-> 1]

Abs(x) == IF x < 0 THEN -x ELSE x

RECURSIVE Gcd(_, _)
Gcd(a, b) == IF b = 0 THEN a ELSE Gcd(b, a % b)

Rat(n, d) ==
  LET g == Gcd(Abs(n), Abs(d))
      s == IF d < 0 THEN -1 ELSE 1
  IN [k |-> "num", n |-> (s * n) \div g, d |-> (s * d) \div g]

Num(v) == Rat(v, 1)

isNaN(x) == x.k = "nan"

\* x < c, x > c, x <= c for an integer literal c; every comparison with NaN is false
LessThan(x, c) ==
  \/ x.k = "inf" /\ x.n < 0
  \/ x.k = "num" /\ x.n < c * x.d
GreaterThan(x, c) ==
  \/ x.k = "inf" /\ x.n > 0
  \/ x.k = "num" /\ x.n > c * x.d
AtMost(x, c) ==
  \/ x.k = "inf" /\ x.n < 0
  \/ x.k = "num" /\ x.n <= c * x.d

\* x / y of two finite or NaN numbers
Divide(x, y) ==
  IF x.k # "num" \/ y.k # "num" THEN NaN
  ELSE IF y.n = 0
       THEN (IF x.n = 0 THEN NaN ELSE Infinity(IF x.n > 0 THEN 1 ELSE -1))
       ELSE Rat(x.n * y.d, x.d * y.n)

(***************************************************************************)
(* Message texts are sequences of characters.                              *)
(***************************************************************************)
Digits == <<"0", "1", "2", "3", "4", "5", "6", "7", "8", "9">>
IsDigit(c) == \E i \in 1..10 : Digits[i] = c
DigitVal(c) == (CHOOSE i \in 1..10 : Digits[i] = c) - 1
IsSpace(c) == c = " "

RECURSIVE Pow10(_)
Pow10(e) == IF e = 0 THEN 1 ELSE 10 * Pow10(e - 1)

\* String.prototype.toLowerCase, on the letters the modelled texts use
LowerChar(c) ==
  CASE c = "C" -> "c"
    [] c = "A" -> "a"
    [] c = "N" -> "n"
    [] c = "E" -> "e"
    [] c = "L" -> "l"
    [] c = "D" -> "d"   \* "D", "d", "a" stand for the Cyrillic letters of the token
    [] OTHER -> c
\* fault: the text is compared as it was typed
toLowerCaseOmitted(text) == text

toLowerCase(text) == [i \in 1..Len(text) |-> LowerChar(text[i])]

startsWith(text, c) == Len(text) >= 1 /\ text[1] = c

\* index of the first character at or after i that is not white space
RECURSIVE SkipSpaces(_, _)
SkipSpaces(s, i) ==
  IF i <= Len(s) /\ IsSpace(s[i]) THEN SkipSpaces(s, i + 1) ELSE i

\* index of the last character at or before i that is not white space
RECURSIVE SkipSpacesBack(_, _)
SkipSpacesBack(s, i) ==
  IF i >= 1 /\ IsSpace(s[i]) THEN SkipSpacesBack(s, i - 1) ELSE i

trim(s) ==
  LET a == SkipSpaces(s, 1)
      b == SkipSpacesBack(s, Len(s))
  IN IF a > b THEN <<>> ELSE SubSeq(s, a, b)

\* String.prototype.split(/\s+/): cur is the token being read, it may be empty
RECURSIVE SplitFrom(_, _, _)
SplitFrom(s, i, cur) ==
  IF i > Len(s) THEN <<cur>>
  ELSE IF IsSpace(s[i])
       THEN <<cur>> \o SplitFrom(s, SkipSpaces(s, i), <<>>)
       ELSE SplitFrom(s, i + 1, Append(cur, s[i]))
split(s) == SplitFrom(s, 1, <<>>)

\* number of digits of s starting at index i
RECURSIVE CountDigits(_, _)
CountDigits(s, i) ==
  IF i <= Len(s) /\ IsDigit(s[i]) THEN 1 + CountDigits(s, i + 1) ELSE 0

\* value of the n digits of s starting at index i
RECURSIVE DigitsValue(_, _, _)
DigitsValue(s, i, n) ==
  IF n = 0 THEN 0
  ELSE 10 * DigitsValue(s, i, n - 1) + DigitVal(s[i + n - 1])

\* parseFloat: leading white space, a sign, digits, a fraction; the longest
\* numeric prefix is parsed and the rest of the string is ignored
parseFloat(s) ==
  LET i0 == SkipSpaces(s, 1)
      signed == i0 <= Len(s) /\ s[i0] \in {"-", "+"}
      sgn == IF signed /\ s[i0] = "-" THEN -1 ELSE 1
      i1 == IF signed THEN i0 + 1 ELSE i0
      nInt == CountDigits(s, i1)
      i2 == i1 + nInt
      hasDot == i2 <= Len(s) /\ s[i2] = "."
      nFrac == IF hasDot THEN CountDigits(s, i2 + 1) ELSE 0
  IN IF nInt = 0 /\ nFrac = 0 THEN NaN
     ELSE Rat(sgn * (DigitsValue(s, i1, nInt) * Pow10(nFrac)
                      + DigitsValue(s, i2 + 1, nFrac)),
              Pow10(nFrac))

\* parseInt: leading white space, a sign, digits; the rest is ignored
parseInt(s) ==
  LET i0 == SkipSpaces(s, 1)
      signed == i0 <= Len(s) /\ s[i0] \in {"-", "+"}
      sgn == IF signed /\ s[i0] = "-" THEN -1 ELSE 1
      i1 == IF signed THEN i0 + 1 ELSE i0
      nInt == CountDigits(s, i1)
  IN IF nInt = 0 THEN NaN ELSE Num(sgn * DigitsValue(s, i1, nInt))


(***************************************************************************)
(* The parameter validator.                                                *)
(***************************************************************************)
Invalid(err) == [valid |-> FALSE, error |-> err]
Valid == [valid |-> TRUE, error |-> "none"]

\* fault: only too few parameters are refused
validCountAtLeast(paramArray) == ~(Len(paramArray) < 7)
validCount(paramArray) == ~(Len(paramArray) < 7 \/ Len(paramArray) > 8)
\* fault: a rate of zero is let through
validRateOrZero(additionRate) == ~(isNaN(additionRate) \/ LessThan(additionRate, 0))
validRate(additionRate) == ~(isNaN(additionRate) \/ AtMost(additionRate, 0))

\* fault: any number passes for a concentration
validConcentrationAnyNumber(concentration) == ~isNaN(concentration)
validConcentration(concentration) ==
  ~(isNaN(concentration) \/ LessThan(concentration, 0))

\* the additionRate that validateParameters checks
checkedRate(paramArray) ==
  IF Len(paramArray) = 8 THEN parseFloat(paramArray[8])
  ELSE Divide(parseFloat(paramArray[6]), parseFloat(paramArray[7]))
\* fault: the rate of the record is always derived
recordRateDerived(paramArray) ==
  Divide(parseFloat(paramArray[6]), parseFloat(paramArray[7]))
\* the additionRate that convertParametersToObject puts in the record
recordRate(paramArray) ==
  IF Len(paramArray) = 8 THEN parseFloat(paramArray[8])
  ELSE Divide(parseFloat(paramArray[6]), parseFloat(paramArray[7]))

validateParameters(paramArray) ==
  IF ~validCount(paramArray) THEN Invalid("count")
  ELSE LET euConcentration == parseFloat(paramArray[1])
           phenanthrolineConcentration == parseFloat(paramArray[2])
           ligandConcentration == parseFloat(paramArray[3])
           ligandType == parseInt(paramArray[4])
           phBsa == parseInt(paramArray[5])
           additionVolume == parseFloat(paramArray[6])
           additionTime == parseFloat(paramArray[7])
           additionRate == checkedRate(paramArray)
       IN IF ~validConcentration(euConcentration)
            THEN Invalid("euConcentration")
          ELSE IF ~validConcentration(phenanthrolineConcentration)
            THEN Invalid("phenanthrolineConcentration")
          ELSE IF ~validConcentration(ligandConcentration)
            THEN Invalid("ligandConcentration")
          ELSE IF isNaN(ligandType) \/ LessThan(ligandType, 0)
                  \/ GreaterThan(ligandType, 3)
            THEN Invalid("ligandType")
          ELSE IF isNaN(phBsa) \/ LessThan(phBsa, 7) \/ GreaterThan(phBsa, 11)
            THEN Invalid("phBsa")
          ELSE IF isNaN(additionVolume) \/ AtMost(additionVolume, 0)
            THEN Invalid("additionVolume")
          ELSE IF isNaN(additionTime) \/ AtMost(additionTime, 0)
            THEN Invalid("additionTime")
          ELSE IF ~validRate(additionRate)
            THEN Invalid("additionRate")
          ELSE Valid

convertParametersToObject(paramArray) ==
  LET additionVolume == parseFloat(paramArray[6])
      additionTime == parseFloat(paramArray[7])
  IN [euConcentration |-> parseFloat(paramArray[1]),
      phenanthrolineConcentration |-> parseFloat(paramArray[2]),
      ligandConcentration |-> parseFloat(paramArray[3]),
      ligandType |-> parseInt(paramArray[4]),
      phBsa |-> parseInt(paramArray[5]),
      additionVolume |-> additionVolume,
      additionTime |-> additionTime,
      additionRate |-> recordRate(paramArray)]

\* msg.text.trim().split(/\s+/).map(param => param.trim())
paramArrayOf(text) == split(trim(text))

(***************************************************************************)
(* The texts users send.  Commands (/predict, /add_result <id>) are        *)
(* actions of their own; these are the other messages.                     *)
(***************************************************************************)
cancelToken == <<"/", "c", "a", "n", "c", "e", "l">>
confirmToken == <<"d", "a">>

CancelLower == <<"/", "c", "a", "n", "c", "e", "l">>
CancelUpper == <<"/", "C", "A", "N", "C", "E", "L">>
ConfirmText == <<"D", "a">>
ZeroText == <<"0">>
\* "1 1 3 2 11 500 30", the example of the instructions message
ParamsText ==
  <<"1", " ", "1", " ", "3", " ", "2", " ", "1", "1", " ",
    "5", "0", "0", " ", "3", "0">>

Texts == {CancelLower, CancelUpper, ConfirmText, ZeroText, ParamsText}

\* what the external predictor may answer
Predictions == {[size |-> Num(120), pdi |-> Rat(1, 4)],
                [size |-> Num(80), pdi |-> Num(0)]}
NoPrediction == [size |-> Null, pdi |-> Null]
NoParameters ==
  [euConcentration |-> Null, phenanthrolineConcentration |-> Null,
   ligandConcentration |-> Null, ligandType |-> Null, phBsa |-> Null,
   additionVolume |-> Null, additionTime |-> Null, additionRate |-> Null]

(***************************************************************************)
(* The state of the process.                                               *)
(***************************************************************************)
VARIABLES
  running,          \* the node process is alive
  whitelist,        \* telegram ids with a row in the Whitelist table
  experiments,      \* the Experiment table; a row's experimentId is its index
  predictionState,  \* predictionHandler.js: Map userId -> { state }
  addResultState,   \* experimentHandler.js: Map userId -> session object
  heap,             \* the session objects of addResultState, by reference
  tasks,            \* the handlers in flight
  ended,            \* the handler that ended in the last step, if one did
  received,         \* inbound messages so far
  confirmed,        \* history: the owner confirmed the overwrite of a row
                    \* since its actual fields were last written
  superseded,       \* history: pairs <<t, c>>, the submission of slot t was
                    \* accepted before the /predict command of slot c came
                    \* in; c is 0 once that command has set its session
  cancelled,        \* history: the users whose Result-Entry cancellation was
                    \* acknowledged and who sent no /add_result since
  call,             \* one call of makeModelPrediction, looked at on its own
  validation        \* one call of validateParameters, looked at on its own

vars == <<running, whitelist, experiments, predictionState, addResultState,
          heap, tasks, ended, received, confirmed, superseded, cancelled,
          call, validation>>

\* the bot, and the two functions looked at on their own
botVars == <<running, whitelist, experiments, predictionState, addResultState,
             heap, tasks, ended, received, confirmed, superseded, cancelled>>
unitVars == <<call, validation>>
NoCall ==
  [promise |-> "none", error |-> "none", message |-> <<>>, value |-> {},
   py |-> "none", code |-> "none", closed |-> FALSE, spawns |-> 0,
   timer |-> FALSE, elapsed |-> 0, output |-> <<>>, errorOutput |-> <<>>,
   todo |-> <<>>, diagnostics |-> <<>>,
   caller |-> [pc |-> "none", session |-> FALSE, created |-> 0, out |-> <<>>]]
NoValidation ==
  [paramArray |-> <<>>, called |-> FALSE, result |-> Valid,
   converted |-> FALSE, parameters |-> NoParameters]

\* references to session objects; 0 is "no object"
ObjIds == 1..(MaxInFlight + Cardinality(Users))
FreeObj == [state |-> "free", experimentId |-> 0, actualSize |-> Null]

IdleTask ==
  [pc |-> "idle", kind |-> "none", user |-> 0, text |-> <<>>, experimentId |-> 0,
   out |-> <<>>, ref |-> 0, parameters |-> NoParameters,
   prediction |-> NoPrediction, created |-> 0, row |-> 0,
   actualSize |-> Null, actualPdI |-> Null, error |-> "none"]

\* a handler of handlePredictionResponse whose parameters passed validation
Submission(tk) ==
  /\ tk.pc \in {"hp_send_processing", "hp_gateway", "hp_create", "hp_edit",
                "hp_catch"}
  /\ tk.parameters # NoParameters

\* the submissions of user u that are in flight
Submissions(u) == {t \in Tasks : tasks[t].user = u /\ Submission(tasks[t])}

\* a handler that has ended, normally or by a rejection nobody handles
Ended(tk) == tk.pc \in {"idle", "done", "rejected"}
InFlight(tk) == ~Ended(tk)

\* a rejected handler promise is pending: the 'unhandledRejection' listener
\* runs before any further I/O callback
RejectionPending == ended.pc = "rejected"
Serving == running /\ ~RejectionPending

\* the slot a new handler takes
FreeSlot(t) ==
  /\ Ended(tasks[t])
  /\ \A t2 \in Tasks : Ended(tasks[t2]) => t <= t2

\* session objects nothing refers to are collected
Referenced(o, ars, ts) ==
  \/ \E u \in Users : ars[u] = o
  \/ \E t \in Tasks : ts[t].ref = o
Collect(h, ars, ts) ==
  [o \in ObjIds |-> IF Referenced(o, ars, ts) THEN h[o] ELSE FreeObj]
NewObj == CHOOSE o \in ObjIds :
            /\ ~Referenced(o, addResultState, tasks)
            /\ \A o2 \in ObjIds : ~Referenced(o2, addResultState, tasks) => o <= o2

\* a handler sends (or edits) a message
Send(tk, m) == [tk EXCEPT !.out = Append(@, m)]
\* a handler returns, or its promise rejects
Return(tk) == [tk EXCEPT !.pc = "done", !.ref = 0]
Reject(tk) == [tk EXCEPT !.pc = "rejected", !.ref = 0]

\* handler t goes on as tk: it is suspended at tk.pc, or it has ended and
\* its slot is free again
Continue(t, tk) ==
  /\ cancelled' =
       IF tk.pc = "done" /\ Len(tk.out) > 0
          /\ tk.out[Len(tk.out)] = "add_result_cancelled"
       THEN cancelled \cup {tk.user}
       ELSE IF tk.kind = "add_result" /\ tk.pc = "wl_check"
       THEN cancelled \ {tk.user}
       ELSE cancelled
  /\ IF Ended(tk)
     THEN /\ tasks' = [tasks EXCEPT ![t] = IdleTask]
          /\ ended' = tk
          /\ superseded' = {p \in superseded : p[1] # t /\ p[2] # t}
     ELSE /\ tasks' = [tasks EXCEPT ![t] = tk]
          /\ ended' = IdleTask
          /\ superseded' = superseded

TypeOK ==
  /\ running \in BOOLEAN
  /\ whitelist \subseteq Users
  /\ Len(experiments) <= MaxExperiments
  /\ predictionState \in [Users -> {"none", "awaiting_parameters"}]
  /\ addResultState \in [Users -> {0} \cup ObjIds]
  /\ \A u \in Users : addResultState[u] # 0 =>
       heap[addResultState[u]].state \in
         {"awaiting_overwrite_confirmation", "awaiting_actual_size",
          "awaiting_actual_pdi"}
  /\ \A t \in Tasks : tasks[t].pc \notin {"done", "rejected"}
  /\ confirmed \in [ExperimentIds -> BOOLEAN]
  /\ superseded \subseteq {p \in Tasks \X (Tasks \cup {0}) : tasks[p[1]].pc # "idle"}
  /\ cancelled \subseteq Users
  /\ received \in 0..MaxMessages

(***************************************************************************)
(* The Experiment repository.                                              *)
(***************************************************************************)
\* fault: the lookup leaves the owner out of the where clause
findOneAnyOwner(experimentId, userId) ==
  IF experimentId \in 1..Len(experiments) THEN experimentId ELSE 0

\* Experiment.findOne({ where: { experimentId, userId } }): the row's id, or 0
findOne(experimentId, userId) ==
  IF /\ experimentId \in 1..Len(experiments)
     /\ experiments[experimentId].userId = userId
  THEN experimentId ELSE 0

\* fault: the results check is inverted (=== in place of !==)
hasResultsInverted(row) == row.actualSize = Null /\ row.actualPdI = Null

\* experiment.actualSize !== null && experiment.actualPdI !== null
hasResults(row) == row.actualSize # Null /\ row.actualPdI # Null

\* fault: the predicted size and PdI change places in the created row
newExperimentSwapped(userId, parameters, prediction) ==
  [userId |-> userId, parameters |-> parameters,
   predictedSize |-> prediction.pdi, predictedPdI |-> prediction.size,
   actualSize |-> Null, actualPdI |-> Null]

newExperiment(userId, parameters, prediction) ==
  [userId |-> userId, parameters |-> parameters,
   predictedSize |-> prediction.size, predictedPdI |-> prediction.pdi,
   actualSize |-> Null, actualPdI |-> Null]

\* The tables outlive the process: it may start with a row of an earlier
\* run, with or without its actual results.
EarlierRow(userId, prediction, actualSize, actualPdI) ==
  [newExperiment(userId, convertParametersToObject(paramArrayOf(ParamsText)),
                 prediction)
     EXCEPT !.actualSize = actualSize, !.actualPdI = actualPdI]
InitialTables ==
  {<<>>,
   <<EarlierRow(Admin, [size |-> Num(120), pdi |-> Rat(1, 4)], Null, Null)>>,
   <<EarlierRow(Admin, [size |-> Num(80), pdi |-> Num(0)], Num(1), Num(0))>>}

Init ==
  /\ running = TRUE
  /\ received = 0
  /\ whitelist = Users
  /\ experiments \in InitialTables
  /\ predictionState = [u \in Users |-> "none"]
  /\ addResultState = [u \in Users |-> 0]
  /\ heap = [o \in ObjIds |-> FreeObj]
  /\ tasks = [t \in Tasks |-> IdleTask]
  /\ ended = IdleTask
  /\ confirmed = [e \in ExperimentIds |-> FALSE]
  /\ superseded = {}
  /\ cancelled = {}
  /\ call = NoCall
  /\ validation = NoValidation

\* an inbound message is taken by a new handler in slot t
Receive(t) ==
  /\ Serving
  /\ FreeSlot(t)
  /\ received < MaxMessages
  /\ received' = received + 1

(***************************************************************************)
(* Whitelist administration (adminHandler.js), on the administrator's      *)
(* /admin user remove <id>: whitelist.destroy() takes effect.              *)
(***************************************************************************)
removeUserFromWhitelist(targetTelegramId) ==
  /\ Serving
  /\ received < MaxMessages
  /\ received' = received + 1
  /\ targetTelegramId \in whitelist
  /\ whitelist' = whitelist \ {targetTelegramId}
  /\ ended' = IdleTask
  /\ UNCHANGED <<running, experiments, predictionState, addResultState, heap,
                 tasks, confirmed, superseded, cancelled>>
  /\ UNCHANGED unitVars

(***************************************************************************)
(* index.js: a rejected handler promise nobody awaits ends the process     *)
(* (process.exit(1)); the session maps and the suspended handlers are gone *)
(* with it, the tables stay.                                               *)
(***************************************************************************)
unhandledRejection ==
  /\ running
  /\ RejectionPending
  /\ running' = FALSE
  /\ predictionState' = [u \in Users |-> "none"]
  /\ addResultState' = [u \in Users |-> 0]
  /\ heap' = [o \in ObjIds |-> FreeObj]
  /\ tasks' = [t \in Tasks |-> IdleTask]
  /\ ended' = IdleTask
  /\ superseded' = {}
  /\ cancelled' = {}
  /\ UNCHANGED <<whitelist, experiments, received, confirmed>>
  /\ UNCHANGED unitVars

(***************************************************************************)
(* The command routes: bot.onText(/\/predict/) and                         *)
(* bot.onText(/\/add_result (.+)/).  Each starts by awaiting the whitelist *)
(* lookup.                                                                 *)
(***************************************************************************)
PredictCommand(t, u) ==
  /\ Receive(t)
  /\ tasks' = [tasks EXCEPT ![t] = [IdleTask EXCEPT !.pc = "wl_check",
                                                    !.kind = "predict",
                                                    !.user = u]]
  /\ ended' = IdleTask
  /\ superseded' = superseded \cup {<<s, t>> : s \in Submissions(u)}
  /\ cancelled' = cancelled
  /\ UNCHANGED <<running, whitelist, experiments, predictionState,
                 addResultState, heap, confirmed>>
  /\ UNCHANGED unitVars

\* the ids a user may name: those of the rows, and one that no row has
KnownIds == 1..(IF Len(experiments) < MaxExperiments
                THEN Len(experiments) + 1 ELSE MaxExperiments)

AddResultCommand(t, u, e) ==
  /\ Receive(t)
  /\ e \in KnownIds
  /\ Continue(t, [IdleTask EXCEPT !.pc = "wl_check", !.kind = "add_result",
                                  !.user = u, !.experimentId = e])
  /\ UNCHANGED <<running, whitelist, experiments, predictionState,
                 addResultState, heap, confirmed>>
  /\ UNCHANGED unitVars

\* fault: a failed lookup answers true
isUserWhitelistedFailOpen(u, lookupOk) == ~lookupOk \/ u \in whitelist

\* isUserWhitelisted: the row is looked up; a failed lookup answers false
isUserWhitelisted(u, lookupOk) == lookupOk /\ u \in whitelist

\* the else branch of a route: the refusal is sent and not awaited; a failed
\* send is a rejection nobody handles
Refuse(t, sendOk) ==
  /\ Continue(t, IF sendOk THEN Return(Send(tasks[t], "access_denied"))
                 ELSE Reject(tasks[t]))
  /\ UNCHANGED <<predictionState, addResultState, heap>>

\* fault: startPrediction ends without storing the session
setPredictionSessionOmitted(u) == predictionState

\* fault: predictionState.clear() in place of delete(userId)
clearPredictionSessions(u) == [v \in Users |-> "none"]

\* predictionState.delete(userId) and predictionState.set(userId, {...})
deletePredictionSession(u) == [predictionState EXCEPT ![u] = "none"]

setPredictionSession(u) == [predictionState EXCEPT ![u] = "awaiting_parameters"]

\* startPrediction up to its await: the session is reset, the instructions
\* are being sent
startPrediction(t) ==
  /\ predictionState' = deletePredictionSession(tasks[t].user)
  /\ Continue(t, [tasks[t] EXCEPT !.pc = "sp_send_instructions"])
  /\ UNCHANGED <<addResultState, heap>>

\* startAddResult up to its await: the experiment is being looked up
startAddResult(t) ==
  /\ Continue(t, [tasks[t] EXCEPT !.pc = "sa_find"])
  /\ UNCHANGED <<predictionState, addResultState, heap>>

WhitelistChecked(t) ==
  /\ Serving
  /\ tasks[t].pc = "wl_check"
  /\ \E lookupOk \in BOOLEAN :
       IF isUserWhitelisted(tasks[t].user, lookupOk)
       THEN IF tasks[t].kind = "predict"
            THEN startPrediction(t) ELSE startAddResult(t)
       ELSE \E sendOk \in BOOLEAN : Refuse(t, sendOk)
  /\ UNCHANGED <<received, running, whitelist, experiments, confirmed>>
  /\ UNCHANGED unitVars


\* startPrediction after the instructions were sent, or the send failed
InstructionsSent(t) ==
  /\ Serving
  /\ tasks[t].pc = "sp_send_instructions"
  /\ \E sendOk \in BOOLEAN :
       IF sendOk
       THEN /\ predictionState' = setPredictionSession(tasks[t].user)
            /\ tasks' = [tasks EXCEPT ![t] = IdleTask]
            /\ ended' = Return(Send(tasks[t], "instructions"))
            /\ superseded' = {p \in superseded : p[2] # t}
                              \cup {<<p[1], 0>> : p \in {q \in superseded : q[2] = t}}
            /\ cancelled' = cancelled
       ELSE /\ Continue(t, [tasks[t] EXCEPT !.pc = "sp_catch", !.error = "send"])
            /\ UNCHANGED predictionState
  /\ UNCHANGED <<received, running, whitelist, experiments, addResultState,
                 heap, confirmed>>
  /\ UNCHANGED unitVars

\* the catch block of startPrediction and of startAddResult: the error report
\* is sent; if that send fails too, the handler's promise rejects
StartCatchSent(t) ==
  /\ Serving
  /\ tasks[t].pc \in {"sp_catch", "sa_catch"}
  /\ \E sendOk \in BOOLEAN :
       Continue(t, IF sendOk THEN Return(Send(tasks[t], "start_failed"))
                   ELSE Reject(tasks[t]))
  /\ UNCHANGED <<received, running, whitelist, experiments, predictionState,
                 addResultState, heap, confirmed>>
  /\ UNCHANGED unitVars

\* startAddResult after the lookup: not found, already has results, or not
ExperimentLookedUp(t) ==
  /\ Serving
  /\ tasks[t].pc = "sa_find"
  /\ \E findOk \in BOOLEAN :
       LET tk == tasks[t]
           id == findOne(tk.experimentId, tk.user)
       IN Continue(t,
            IF ~findOk THEN [tk EXCEPT !.pc = "sa_catch", !.error = "find"]
            ELSE IF id = 0 THEN [tk EXCEPT !.pc = "sa_send_not_found"]
            ELSE IF hasResults(experiments[id])
                 THEN [tk EXCEPT !.pc = "sa_send_overwrite_question", !.row = id]
                 ELSE [tk EXCEPT !.pc = "sa_send_size_prompt", !.row = id])
  /\ UNCHANGED <<received, running, whitelist, experiments, predictionState,
                 addResultState, heap, confirmed>>
  /\ UNCHANGED unitVars

\* addResultState.set(userId, { state, experimentId }): a new session object
setNewSession(tk, state) ==
  LET o == NewObj
  IN /\ addResultState' = [addResultState EXCEPT ![tk.user] = o]
     /\ heap' = Collect([heap EXCEPT ![o] =
                           [state |-> state, experimentId |-> tk.experimentId,
                            actualSize |-> Null]],
                        addResultState', tasks')

\* startAddResult after its reply was sent, or the send failed
StartAddResultSent(t) ==
  /\ Serving
  /\ tasks[t].pc \in {"sa_send_not_found", "sa_send_overwrite_question",
                      "sa_send_size_prompt"}
  /\ \E sendOk \in BOOLEAN :
       LET tk == tasks[t] IN
       IF ~sendOk
       THEN /\ Continue(t, [tk EXCEPT !.pc = "sa_catch", !.error = "send"])
            /\ UNCHANGED <<addResultState, heap>>
       ELSE IF tk.pc = "sa_send_not_found"
       THEN /\ Continue(t, Return(Send(tk, "not_found")))
            /\ UNCHANGED <<addResultState, heap>>
       ELSE IF tk.pc = "sa_send_overwrite_question"
       THEN /\ Continue(t, Return(Send(tk, "overwrite_question")))
            /\ setNewSession(tk, "awaiting_overwrite_confirmation")
       ELSE /\ Continue(t, Return(Send(tk, "size_prompt")))
            /\ setNewSession(tk, "awaiting_actual_size")
  /\ UNCHANGED <<received, running, whitelist, experiments, predictionState,
                 confirmed>>
  /\ UNCHANGED unitVars

(***************************************************************************)
(* handleAddResultResponse, from its call to its first await.  tk is the   *)
(* handler's record as handlePredictionResponse left it.                   *)
(***************************************************************************)
\* fault: the size check lets 0 through (< in place of <=)
validSizeOrZero(number) == ~(isNaN(number) \/ LessThan(number, 0))

\* !(isNaN(size) || size <= 0)
validSize(number) == ~(isNaN(number) \/ AtMost(number, 0))

\* fault: the PdI check turns 0 away (<= in place of <)
validPdiPositive(number) == ~(isNaN(number) \/ AtMost(number, 0))

\* !(isNaN(pdi) || pdi < 0)
validPdi(number) == ~(isNaN(number) \/ LessThan(number, 0))

handleAddResultResponse(t, tk) ==
  LET u == tk.user
      ref == addResultState[u]
      userState == heap[ref]
      number == parseFloat(trim(tk.text))
  IN
  IF ref = 0
  THEN \* no session: nothing is done
       /\ Continue(t, Return(tk))
       /\ addResultState' = addResultState
       /\ heap' = Collect(heap, addResultState', tasks')
  ELSE IF toLowerCase(tk.text) = cancelToken
  THEN /\ addResultState' = [addResultState EXCEPT ![u] = 0]
       /\ Continue(t, [tk EXCEPT !.pc = "ha_send_cancelled"])
       /\ heap' = Collect(heap, addResultState', tasks')
  ELSE IF userState.state = "awaiting_overwrite_confirmation"
  THEN IF toLowerCase(tk.text) = confirmToken
       THEN /\ Continue(t, [tk EXCEPT !.pc = "ha_find_confirm", !.ref = ref])
            /\ addResultState' = addResultState
            /\ heap' = Collect(heap, addResultState', tasks')
       ELSE /\ addResultState' = [addResultState EXCEPT ![u] = 0]
            /\ Continue(t, [tk EXCEPT !.pc = "ha_send_cancelled"])
            /\ heap' = Collect(heap, addResultState', tasks')
  ELSE IF userState.state = "awaiting_actual_size"
  THEN IF ~validSize(number)
       THEN /\ Continue(t, [tk EXCEPT !.pc = "ha_send_bad_size"])
            /\ addResultState' = addResultState
            /\ heap' = Collect(heap, addResultState', tasks')
       ELSE /\ Continue(t, [tk EXCEPT !.pc = "ha_send_pdi_prompt"])
            /\ addResultState' = [addResultState EXCEPT ![u] = ref]
            /\ heap' = Collect([heap EXCEPT ![ref].actualSize = number,
                                            ![ref].state = "awaiting_actual_pdi"],
                               addResultState', tasks')
  ELSE \* awaiting_actual_pdi
       IF ~validPdi(number)
       THEN /\ Continue(t, [tk EXCEPT !.pc = "ha_send_bad_pdi"])
            /\ addResultState' = addResultState
            /\ heap' = Collect(heap, addResultState', tasks')
       ELSE /\ Continue(t, [tk EXCEPT !.pc = "ha_find_pdi", !.ref = ref,
                                      !.actualPdI = number])
            /\ addResultState' = addResultState
            /\ heap' = Collect(heap, addResultState', tasks')

(***************************************************************************)
(* handlePredictionResponse, from its call to its first await, or through  *)
(* to handleAddResultResponse when it returns at once.                     *)
(***************************************************************************)
\* submissions that will still ask for a row of the Experiment table
PendingCreates ==
  Cardinality({t \in Tasks :
                 tasks[t].pc \in {"hp_send_processing", "hp_gateway", "hp_create"}})

\* fault: a validation failure clears the session
rejectParametersClearing(t, tk) ==
  /\ Continue(t, [tk EXCEPT !.pc = "hp_send_invalid"])
  /\ predictionState' = deletePredictionSession(tk.user)
  /\ UNCHANGED <<addResultState, heap>>

\* validation failed: the error is reported, the session is not touched
rejectParameters(t, tk) ==
  /\ Continue(t, [tk EXCEPT !.pc = "hp_send_invalid"])
  /\ UNCHANGED <<predictionState, addResultState, heap>>

\* variant: the session is cleared as soon as the submission is accepted
acceptParametersClearing(t, tk) ==
  /\ Len(experiments) + PendingCreates < MaxExperiments
  /\ Continue(t, [tk EXCEPT !.pc = "hp_send_processing",
                            !.parameters =
                              convertParametersToObject(paramArrayOf(tk.text))])
  /\ predictionState' = deletePredictionSession(tk.user)
  /\ UNCHANGED <<addResultState, heap>>

\* validation passed: the parameters are converted and the placeholder is
\* sent, the session is not touched
acceptParameters(t, tk) ==
  /\ Len(experiments) + PendingCreates < MaxExperiments
  /\ Continue(t, [tk EXCEPT !.pc = "hp_send_processing",
                            !.parameters =
                              convertParametersToObject(paramArrayOf(tk.text))])
  /\ UNCHANGED <<predictionState, addResultState, heap>>

\* fault: the controller goes on without a session
awaitingParametersUnchecked(u) == TRUE
\* userState && userState.state === 'awaiting_parameters'
awaitingParameters(u) == predictionState[u] = "awaiting_parameters"

handlePredictionResponse(t, tk) ==
  IF ~awaitingParameters(tk.user)
  THEN /\ predictionState' = predictionState
       /\ handleAddResultResponse(t, tk)
  ELSE IF toLowerCase(tk.text) = cancelToken
  THEN /\ predictionState' = deletePredictionSession(tk.user)
       /\ Continue(t, [tk EXCEPT !.pc = "hp_send_cancelled"])
       /\ UNCHANGED <<addResultState, heap>>
  ELSE IF ~validateParameters(paramArrayOf(tk.text)).valid
  THEN rejectParameters(t, tk)
  ELSE acceptParameters(t, tk)

\* history: the owner of a row with results sends the confirmation token
confirmedBy(u, text) ==
  [e \in ExperimentIds |->
     \/ confirmed[e]
     \/ /\ toLowerCase(text) = confirmToken
        /\ e <= Len(experiments)
        /\ experiments[e].userId = u
        /\ hasResults(experiments[e])]

\* bot.on('message'): texts that start with "/" are left to the command routes
TextMessage(t, u, text) ==
  /\ Receive(t)
  /\ LET tk == [IdleTask EXCEPT !.pc = "received", !.kind = "text",
                                !.user = u, !.text = text]
     IN IF ~startsWith(text, "/")
        THEN handlePredictionResponse(t, tk)
        ELSE /\ Continue(t, Return(tk))
             /\ UNCHANGED <<predictionState, addResultState, heap>>
  /\ confirmed' = confirmedBy(u, text)
  /\ UNCHANGED <<running, whitelist, experiments>>
  /\ UNCHANGED unitVars

\* the catch block of handlePredictionResponse is entered
predictionCatch(tk, err) == [tk EXCEPT !.pc = "hp_catch", !.error = err]

\* a reply after which handlePredictionResponse returns: the cancellation
\* acknowledgment or the validation error
PredictionReplySent(t) ==
  /\ Serving
  /\ tasks[t].pc \in {"hp_send_cancelled", "hp_send_invalid"}
  /\ \E sendOk \in BOOLEAN :
       IF sendOk
       THEN /\ predictionState' = predictionState
            /\ handleAddResultResponse(t,
                 Send(tasks[t], IF tasks[t].pc = "hp_send_invalid"
                                THEN "invalid_parameters"
                                ELSE "prediction_cancelled"))
       ELSE /\ Continue(t, predictionCatch(tasks[t], "send"))
            /\ UNCHANGED <<predictionState, addResultState, heap>>
  /\ UNCHANGED <<received, running, whitelist, experiments, confirmed>>
  /\ UNCHANGED unitVars

\* the "processing" placeholder was sent: the gateway is called
ProcessingSent(t) ==
  /\ Serving
  /\ tasks[t].pc = "hp_send_processing"
  /\ \E sendOk \in BOOLEAN :
       Continue(t, IF sendOk
                   THEN [Send(tasks[t], "processing") EXCEPT !.pc = "hp_gateway"]
                   ELSE predictionCatch(tasks[t], "send"))
  /\ UNCHANGED <<received, running, whitelist, experiments, predictionState,
                 addResultState, heap, confirmed>>
  /\ UNCHANGED unitVars

\* makeModelPrediction settles: a prediction, or a rejection (timeout,
\* nonzero exit, unparsable output, error field, spawn error)
GatewaySettled(t) ==
  /\ Serving
  /\ tasks[t].pc = "hp_gateway"
  /\ \/ \E prediction \in Predictions :
          Continue(t, [tasks[t] EXCEPT !.pc = "hp_create",
                                       !.prediction = prediction])
     \/ Continue(t, predictionCatch(tasks[t], "gateway"))
  /\ UNCHANGED <<received, running, whitelist, experiments, predictionState,
                 addResultState, heap, confirmed>>
  /\ UNCHANGED unitVars

\* Experiment.create settles: the row is inserted, or the insert failed
ExperimentCreated(t) ==
  /\ Serving
  /\ tasks[t].pc = "hp_create"
  /\ LET tk == tasks[t] IN
     \/ /\ experiments' =
             Append(experiments,
                    newExperiment(tk.user, tk.parameters, tk.prediction))
        /\ Continue(t, [tk EXCEPT !.pc = "hp_edit",
                                  !.created = Len(experiments) + 1])
     \/ /\ Continue(t, predictionCatch(tk, "create"))
        /\ UNCHANGED experiments
  /\ UNCHANGED <<received, running, whitelist, predictionState, addResultState,
                 heap, confirmed>>
  /\ UNCHANGED unitVars

\* editMessageText settles: the placeholder shows the summary and the session
\* is cleared, or the edit failed
SummaryEdited(t) ==
  /\ Serving
  /\ tasks[t].pc = "hp_edit"
  /\ \E editOk \in BOOLEAN :
       IF editOk
       THEN /\ predictionState' = deletePredictionSession(tasks[t].user)
            /\ handleAddResultResponse(t, Send(tasks[t], "edit_summary"))
       ELSE /\ Continue(t, predictionCatch(tasks[t], "edit"))
            /\ UNCHANGED <<predictionState, addResultState, heap>>
  /\ UNCHANGED <<received, running, whitelist, experiments, confirmed>>
  /\ UNCHANGED unitVars

\* fault: the catch block reports the error and keeps the session
PredictionCatchSentKeeping(t) ==
  /\ Serving
  /\ tasks[t].pc = "hp_catch"
  /\ \E sendOk \in BOOLEAN :
       IF sendOk
       THEN /\ predictionState' = predictionState
            /\ handleAddResultResponse(t, Send(tasks[t], "prediction_failed"))
       ELSE /\ Continue(t, Reject(tasks[t]))
            /\ UNCHANGED <<predictionState, addResultState, heap>>
  /\ UNCHANGED <<received, running, whitelist, experiments, confirmed>>
  /\ UNCHANGED unitVars

\* the catch block of handlePredictionResponse: the error report is sent,
\* then the session is cleared; a failed send rejects the handler's promise
PredictionCatchSent(t) ==
  /\ Serving
  /\ tasks[t].pc = "hp_catch"
  /\ \E sendOk \in BOOLEAN :
       IF sendOk
       THEN /\ predictionState' = deletePredictionSession(tasks[t].user)
            /\ handleAddResultResponse(t, Send(tasks[t], "prediction_failed"))
       ELSE /\ Continue(t, Reject(tasks[t]))
            /\ UNCHANGED <<predictionState, addResultState, heap>>
  /\ UNCHANGED <<received, running, whitelist, experiments, confirmed>>
  /\ UNCHANGED unitVars

(***************************************************************************)
(* handleAddResultResponse, from each of its awaits.                       *)
(***************************************************************************)
\* the catch block of handleAddResultResponse is entered
addResultCatch(tk, err) ==
  [tk EXCEPT !.pc = "ha_catch", !.error = err, !.ref = 0]

ReplyOf(pc) ==
  CASE pc = "ha_send_cancelled" -> "add_result_cancelled"
    [] pc = "ha_send_bad_size" -> "bad_size"
    [] pc = "ha_send_pdi_prompt" -> "pdi_prompt"
    [] pc = "ha_send_bad_pdi" -> "bad_pdi"
    [] pc = "ha_send_summary" -> "result_summary"

\* a reply after which handleAddResultResponse returns
AddResultReplySent(t) ==
  /\ Serving
  /\ tasks[t].pc \in {"ha_send_cancelled", "ha_send_bad_size",
                      "ha_send_pdi_prompt", "ha_send_bad_pdi", "ha_send_summary"}
  /\ \E sendOk \in BOOLEAN :
       Continue(t, IF sendOk
                   THEN Return(Send(tasks[t], ReplyOf(tasks[t].pc)))
                   ELSE addResultCatch(tasks[t], "send"))
  /\ heap' = Collect(heap, addResultState, tasks')
  /\ UNCHANGED <<received, running, whitelist, experiments, predictionState,
                 addResultState, confirmed>>
  /\ UNCHANGED unitVars

\* awaiting_overwrite_confirmation, after the confirmation: the experiment
\* was looked up and its details are being sent; formatExperimentForDisplay
\* throws on null
ConfirmLookedUp(t) ==
  /\ Serving
  /\ tasks[t].pc = "ha_find_confirm"
  /\ \E findOk \in BOOLEAN :
       LET tk == tasks[t]
           id == findOne(heap[tk.ref].experimentId, tk.user)
       IN Continue(t, IF findOk /\ id # 0
                      THEN [tk EXCEPT !.pc = "ha_send_update_prompt"]
                      ELSE addResultCatch(tk, "find"))
  /\ heap' = Collect(heap, addResultState, tasks')
  /\ UNCHANGED <<received, running, whitelist, experiments, predictionState,
                 addResultState, confirmed>>
  /\ UNCHANGED unitVars

\* the update prompt was sent: userState.state = 'awaiting_actual_size' and
\* addResultState.set(userId, userState), with the object read before the awaits
UpdatePromptSent(t) ==
  /\ Serving
  /\ tasks[t].pc = "ha_send_update_prompt"
  /\ \E sendOk \in BOOLEAN :
       LET tk == tasks[t] IN
       IF sendOk
       THEN /\ Continue(t, Return(Send(tk, "update_prompt")))
            /\ addResultState' = [addResultState EXCEPT ![tk.user] = tk.ref]
            /\ heap' = Collect([heap EXCEPT ![tk.ref].state = "awaiting_actual_size"],
                               addResultState', tasks')
       ELSE /\ Continue(t, addResultCatch(tk, "send"))
            /\ addResultState' = addResultState
            /\ heap' = Collect(heap, addResultState', tasks')
  /\ UNCHANGED <<received, running, whitelist, experiments, predictionState,
                 confirmed>>
  /\ UNCHANGED unitVars

\* awaiting_actual_pdi: the experiment was looked up again; both actual
\* fields are set on it from the session object and the save is started
PdiLookedUp(t) ==
  /\ Serving
  /\ tasks[t].pc = "ha_find_pdi"
  /\ \E findOk \in BOOLEAN :
       LET tk == tasks[t]
           id == findOne(heap[tk.ref].experimentId, tk.user)
       IN Continue(t, IF findOk /\ id # 0
                      THEN [tk EXCEPT !.pc = "ha_save", !.row = id, !.ref = 0,
                                      !.actualSize = heap[tk.ref].actualSize]
                      ELSE addResultCatch(tk, "find"))
  /\ heap' = Collect(heap, addResultState, tasks')
  /\ UNCHANGED <<received, running, whitelist, experiments, predictionState,
                 addResultState, confirmed>>
  /\ UNCHANGED unitVars

\* experiment.save() settles: the row holds both actual fields and the
\* session is cleared, or the save failed
ExperimentSaved(t) ==
  /\ Serving
  /\ tasks[t].pc = "ha_save"
  /\ LET tk == tasks[t] IN
     \/ /\ experiments' = [experiments EXCEPT ![tk.row].actualSize = tk.actualSize,
                                               ![tk.row].actualPdI = tk.actualPdI]
        /\ confirmed' = [confirmed EXCEPT ![tk.row] = FALSE]
        /\ addResultState' = [addResultState EXCEPT ![tk.user] = 0]
        /\ Continue(t, [tk EXCEPT !.pc = "ha_send_summary"])
     \/ /\ Continue(t, addResultCatch(tk, "save"))
        /\ UNCHANGED <<experiments, confirmed, addResultState>>
  /\ heap' = Collect(heap, addResultState', tasks')
  /\ UNCHANGED <<received, running, whitelist, predictionState>>
  /\ UNCHANGED unitVars

\* the catch block of handleAddResultResponse: the error report is sent, then
\* the session is cleared; a failed send rejects the handler's promise
AddResultCatchSent(t) ==
  /\ Serving
  /\ tasks[t].pc = "ha_catch"
  /\ \E sendOk \in BOOLEAN :
       IF sendOk
       THEN /\ Continue(t, Return(Send(tasks[t], "add_result_failed")))
            /\ addResultState' = [addResultState EXCEPT ![tasks[t].user] = 0]
       ELSE /\ Continue(t, Reject(tasks[t]))
            /\ addResultState' = addResultState
  /\ heap' = Collect(heap, addResultState', tasks')
  /\ UNCHANGED <<received, running, whitelist, experiments, predictionState,
                 confirmed>>
  /\ UNCHANGED unitVars

(***************************************************************************)
(* The specification.                                                      *)
(***************************************************************************)
Next ==
  \/ \E u \in Users \ {Admin} : removeUserFromWhitelist(u)
  \/ unhandledRejection
  \/ \E t \in Tasks, u \in Users : PredictCommand(t, u)
  \/ \E t \in Tasks, u \in Users, e \in ExperimentIds : AddResultCommand(t, u, e)
  \/ \E t \in Tasks, u \in Users, text \in Texts : TextMessage(t, u, text)
  \/ \E t \in Tasks : WhitelistChecked(t)
  \/ \E t \in Tasks : InstructionsSent(t)
  \/ \E t \in Tasks : StartCatchSent(t)
  \/ \E t \in Tasks : ExperimentLookedUp(t)
  \/ \E t \in Tasks : StartAddResultSent(t)
  \/ \E t \in Tasks : PredictionReplySent(t)
  \/ \E t \in Tasks : ProcessingSent(t)
  \/ \E t \in Tasks : GatewaySettled(t)
  \/ \E t \in Tasks : ExperimentCreated(t)
  \/ \E t \in Tasks : SummaryEdited(t)
  \/ \E t \in Tasks : PredictionCatchSent(t)
  \/ \E t \in Tasks : AddResultReplySent(t)
  \/ \E t \in Tasks : ConfirmLookedUp(t)
  \/ \E t \in Tasks : UpdatePromptSent(t)
  \/ \E t \in Tasks : PdiLookedUp(t)
  \/ \E t \in Tasks : ExperimentSaved(t)
  \/ \E t \in Tasks : AddResultCatchSent(t)

Spec == Init /\ [][Next]_vars

(***************************************************************************)
(* Vocabulary of the properties.                                           *)
(***************************************************************************)
\* the handler sent (or edited in) message m
Sent(tk, m) == \E i \in 1..Len(tk.out) : tk.out[i] = m

\* the handler of slot t as the step leaves it: suspended, or just ended
After(t) == IF tasks'[t].pc # "idle" THEN tasks'[t] ELSE ended'

\* the step resumes the handler of slot t, suspended at pc
Stepped(t, pc) == tasks[t].pc = pc /\ tasks'[t] # tasks[t] /\ running'

\* the step receives a message, which the handler of slot t takes
Arrived(t) == received' = received + 1 /\ FreeSlot(t) /\ After(t).kind # "none"

\* the step receives text as a chat message of user u, in slot t
TextArrived(t, u) == Arrived(t) /\ After(t).kind = "text" /\ After(t).user = u

HasPredictionSession(u) == predictionState[u] = "awaiting_parameters"
HasResultEntrySession(u) == addResultState[u] # 0

\* the pcs at which handlePredictionResponse is suspended
PredictionPcs == {"hp_send_cancelled", "hp_send_invalid", "hp_send_processing",
                  "hp_gateway", "hp_create", "hp_edit", "hp_catch"}
PredictionReplies == {"prediction_cancelled", "invalid_parameters", "processing",
                      "edit_summary", "prediction_failed"}

\* experiment e is a row owned by user u
Owned(e, u) == e \in 1..Len(experiments) /\ experiments[e].userId = u

(***************************************************************************)
(* C1.  When a user who has an open session (Prediction or Result-Entry)   *)
(* sends a chat message whose text is /cancel in any letter case, the      *)
(* session is removed by the handling of that message: the step that       *)
(* receives the message leaves the user with no session in either flow.    *)
(***************************************************************************)
C1_CancelRemovesSession ==
  [][\A t \in Tasks, u \in Users :
       ( /\ TextArrived(t, u)
         /\ toLowerCase(After(t).text) = cancelToken
         /\ HasPredictionSession(u) \/ HasResultEntrySession(u) )
       => ~HasPredictionSession(u)' /\ ~HasResultEntrySession(u)']_vars

(***************************************************************************)
(* C2.  A text that fails validation, received while the user's session is *)
(* AwaitingParameters, gets the validation error message and nothing else  *)
(* of the Prediction flow: the handler does not touch the session, which   *)
(* stays AwaitingParameters, converts no parameters, sends no placeholder, *)
(* calls no gateway and creates no Experiment.  (A failed send of the      *)
(* error message is the catch block's case.)                               *)
(***************************************************************************)
C2_InvalidKeepsSession ==
  [][\A t \in Tasks, u \in Users :
       /\ ( /\ TextArrived(t, u)
            /\ ~startsWith(After(t).text, "/")
            /\ HasPredictionSession(u)
            /\ toLowerCase(After(t).text) # cancelToken
            /\ ~validateParameters(paramArrayOf(After(t).text)).valid )
          => /\ After(t).pc = "hp_send_invalid"
             /\ After(t).parameters = NoParameters
             /\ HasPredictionSession(u)'
             /\ predictionState' = predictionState
             /\ experiments' = experiments
       /\ ( /\ Stepped(t, "hp_send_invalid")
            /\ tasks[t].user = u
            /\ After(t).pc # "hp_catch" )
          => /\ Sent(After(t), "invalid_parameters")
             /\ ~Sent(After(t), "processing")
             /\ After(t).pc \notin PredictionPcs
             /\ After(t).prediction = NoPrediction
             /\ After(t).created = 0
             /\ predictionState' = predictionState
             /\ experiments' = experiments]_vars

\* the error message went out and the session is still AwaitingParameters
C2_Witness ==
  /\ ended.pc = "done"
  /\ ended.kind = "text"
  /\ Sent(ended, "invalid_parameters")
  /\ HasPredictionSession(ended.user)

(***************************************************************************)
(* C3.  When the gateway call of a validated submission fails, the handler *)
(* enters its catch block with no Experiment created; once the generic     *)
(* failure message is sent the user's Prediction session is removed and    *)
(* the table is as it was.  A text received while the user has no          *)
(* Prediction session is not acted on by the Prediction controller.        *)
(***************************************************************************)
C3_GatewayFailureClearsSession ==
  [][\A t \in Tasks :
       /\ (Stepped(t, "hp_gateway") /\ After(t).pc \notin {"hp_create"})
          => /\ After(t).pc = "hp_catch"
             /\ After(t).error = "gateway"
             /\ After(t).created = 0
             /\ experiments' = experiments
       /\ \A u \in Users :
            ( /\ Stepped(t, "hp_catch")
              /\ tasks[t].user = u
              /\ tasks[t].error = "gateway"
              /\ After(t).pc # "rejected" )
            => /\ Sent(After(t), "prediction_failed")
               /\ ~HasPredictionSession(u)'
               /\ After(t).created = 0
               /\ experiments' = experiments
       /\ \A u \in Users :
            (TextArrived(t, u) /\ ~HasPredictionSession(u))
            => /\ After(t).pc \notin PredictionPcs
               /\ \A m \in PredictionReplies : ~Sent(After(t), m)
               /\ predictionState' = predictionState
               /\ experiments' = experiments]_vars

\* a handler whose gateway call failed has reported it and ended; the user
\* has no Prediction session
C3_Witness ==
  /\ ended.pc = "done"
  /\ ended.error = "gateway"
  /\ Sent(ended, "prediction_failed")
  /\ ~HasPredictionSession(ended.user)

(***************************************************************************)
(* C4.  When the gateway succeeds the handler creates exactly one          *)
(* Experiment: the create appends one row, with the submitting user's id,  *)
(* the parameter record converted from the submitted text and the          *)
(* predicted size and PdI the gateway returned; the edit that replaces the *)
(* placeholder by the summary carries that row's id and removes the user's *)
(* Prediction session.                                                     *)
(***************************************************************************)
C4_SuccessPersistsOneExperiment ==
  [][\A t \in Tasks :
       /\ tasks[t].pc \in {"hp_send_processing", "hp_gateway", "hp_create"}
          => tasks[t].created = 0
       /\ (Stepped(t, "hp_gateway") /\ After(t).pc # "hp_catch")
          => /\ After(t).pc = "hp_create"
             /\ After(t).prediction \in Predictions
             /\ experiments' = experiments
       /\ (Stepped(t, "hp_create") /\ After(t).pc # "hp_catch")
          => /\ After(t).pc = "hp_edit"
             /\ Len(experiments') = Len(experiments) + 1
             /\ SubSeq(experiments', 1, Len(experiments)) = experiments
             /\ After(t).created = Len(experiments')
             /\ LET row == experiments'[Len(experiments')]
                IN /\ row.userId = tasks[t].user
                   /\ row.parameters =
                        convertParametersToObject(paramArrayOf(tasks[t].text))
                   /\ row.predictedSize = tasks[t].prediction.size
                   /\ row.predictedPdI = tasks[t].prediction.pdi
                   /\ ~hasResults(row)
       /\ \A u \in Users :
            ( /\ Stepped(t, "hp_edit")
              /\ tasks[t].user = u
              /\ After(t).pc # "hp_catch" )
            => /\ Sent(After(t), "edit_summary")
               /\ Owned(After(t).created, u)
               /\ ~HasPredictionSession(u)'
               /\ experiments' = experiments]_vars

\* the summary of a created Experiment went out; the session is removed
C4_Witness ==
  /\ ended.pc = "done"
  /\ Sent(ended, "edit_summary")
  /\ Owned(ended.created, ended.user)
  /\ experiments[ended.created].predictedSize = ended.prediction.size
  /\ ~HasPredictionSession(ended.user)

(***************************************************************************)
(* C5.  In both flows, when the handling of a text raised an error, the    *)
(* handler leaves its catch block with the user's session of that flow     *)
(* removed, also when the send of the error report fails.                  *)
(***************************************************************************)
C5_NoSessionLeftAfterError ==
  [][\A t \in Tasks, u \in Users :
       /\ (Stepped(t, "hp_catch") /\ tasks[t].user = u)
          => ~HasPredictionSession(u)'
       /\ (Stepped(t, "ha_catch") /\ tasks[t].user = u)
          => ~HasResultEntrySession(u)']_vars

(***************************************************************************)
(* C6.  /predict reaches startPrediction only for a whitelisted user, and  *)
(* when startPrediction has sent the instructions the handler ends with    *)
(* the user's Prediction session AwaitingParameters, whatever was handled  *)
(* for that user before or meanwhile.  (A failed send of the instructions  *)
(* is the catch block's case.)                                             *)
(***************************************************************************)
C6_PredictOpensSession ==
  [][\A t \in Tasks, u \in Users :
       /\ ( /\ Stepped(t, "wl_check")
            /\ tasks[t].user = u
            /\ After(t).pc = "sp_send_instructions" )
          => tasks[t].kind = "predict" /\ u \in whitelist
       /\ ( /\ Stepped(t, "sp_send_instructions")
            /\ tasks[t].user = u
            /\ After(t).pc # "sp_catch" )
          => /\ After(t).pc = "done"
             /\ Sent(After(t), "instructions")
             /\ HasPredictionSession(u)']_vars

\* /predict has just been handled for a user one of whose texts, taken
\* against the earlier session, is still being handled
C6_Witness ==
  /\ ended.pc = "done"
  /\ ended.kind = "predict"
  /\ Sent(ended, "instructions")
  /\ HasPredictionSession(ended.user)
  /\ \E t \in Tasks : /\ tasks[t].user = ended.user
                      /\ tasks[t].pc \in PredictionPcs

(***************************************************************************)
(* C7.  In every reachable state no user has an open Prediction session    *)
(* and an open Result-Entry session at the same time.                      *)
(***************************************************************************)
C7_AtMostOneSession ==
  \A u \in Users : ~(HasPredictionSession(u) /\ HasResultEntrySession(u))

(***************************************************************************)
(* C8.  A save never writes the actual size and PdI of an Experiment that  *)
(* has both already, unless its owner sent the confirmation token after    *)
(* they were written.                                                      *)
(***************************************************************************)
C8_NoOverwriteWithoutConfirmation ==
  [][\A t \in Tasks :
       ( /\ Stepped(t, "ha_save")
         /\ After(t).pc = "ha_send_summary"
         /\ hasResults(experiments[tasks[t].row]) )
       => confirmed[tasks[t].row]]_vars

(***************************************************************************)
(* C9.  A valid parameter message leaves the AwaitingParameters session it *)
(* is handled against in place, and the handler does not touch the session *)
(* at the placeholder send, the gateway call or the create, so that two    *)
(* handlers of one user can wait for the gateway at once; each gateway     *)
(* call that succeeds goes on to create a row, and each create that        *)
(* succeeds adds a row of its own.                                         *)
(***************************************************************************)
C9_SessionStaysDuringSubmission ==
  [][\A t \in Tasks, u \in Users :
       /\ (TextArrived(t, u) /\ After(t).pc = "hp_send_processing")
          => HasPredictionSession(u) /\ HasPredictionSession(u)'
       /\ ( /\ tasks[t].pc \in {"hp_send_processing", "hp_gateway", "hp_create"}
            /\ tasks'[t] # tasks[t]
            /\ running' )
          => /\ After(t).pc \in {"hp_gateway", "hp_create", "hp_edit", "hp_catch"}
             /\ predictionState' = predictionState
       /\ (Stepped(t, "hp_create") /\ After(t).pc = "hp_edit")
          => /\ Len(experiments') = Len(experiments) + 1
             /\ \A t2 \in Tasks \ {t} : tasks'[t2].created # After(t).created]_vars

\* two gateway calls of one user are in flight at once
C9_Witness ==
  \E t1, t2 \in Tasks :
    /\ t1 # t2
    /\ tasks[t1].user = tasks[t2].user
    /\ tasks[t1].pc = "hp_gateway"
    /\ tasks[t2].pc = "hp_gateway"
    /\ HasPredictionSession(tasks[t1].user)

\* both submissions have created their Experiment
C9_BothCreated ==
  \E t1, t2 \in Tasks :
    /\ t1 # t2
    /\ tasks[t1].user = tasks[t2].user
    /\ tasks[t1].pc = "hp_edit"
    /\ tasks[t2].pc = "hp_edit"
    /\ tasks[t1].created # tasks[t2].created

(***************************************************************************)
(* C10.  /add_result with an id that is no Experiment of the requester     *)
(* (no such row, or a row of another user) gets the not-found message, and *)
(* the handler creates no Result-Entry session.  (A failed lookup or send  *)
(* is the catch block's case.)                                             *)
(***************************************************************************)
C10_NotOwnedNotFound ==
  [][\A t \in Tasks :
       /\ ( /\ Stepped(t, "sa_find")
            /\ ~Owned(tasks[t].experimentId, tasks[t].user)
            /\ After(t).pc # "sa_catch" )
          => /\ After(t).pc = "sa_send_not_found"
             /\ addResultState' = addResultState
       /\ (Stepped(t, "sa_send_not_found") /\ After(t).pc # "sa_catch")
          => /\ After(t).pc = "done"
             /\ After(t).out = <<"not_found">>
             /\ addResultState' = addResultState]_vars

\* the not-found message went out for an Experiment of another user
C10_Witness ==
  /\ ended.pc = "done"
  /\ ended.kind = "add_result"
  /\ Sent(ended, "not_found")
  /\ ended.experimentId \in 1..Len(experiments)
  /\ experiments[ended.experimentId].userId # ended.user
  /\ ~HasResultEntrySession(ended.user)

(***************************************************************************)
(* Vocabulary of the Result-Entry properties.                              *)
(***************************************************************************)
\* both actual fields of row e are populated
BothPopulated(e) ==
  experiments[e].actualSize.k # "null" /\ experiments[e].actualPdI.k # "null"

\* the Result-Entry session of user u
SessionOf(u) == heap[addResultState[u]]
InState(u, state) == HasResultEntrySession(u) /\ SessionOf(u).state = state

\* x is a number greater than 0, greater than or equal to 0
Positive(x) == x.k \in {"num", "inf"} /\ x.n > 0
NonNegative(x) == Positive(x) \/ (x.k = "num" /\ x.n = 0)

\* the step receives a text of user u that the controllers are handed
FreeTextArrived(t, u) ==
  /\ TextArrived(t, u)
  /\ ~startsWith(After(t).text, "/")

\* the step hands a free text of user u to handleAddResultResponse as its
\* first controller action: the Prediction controller has no session for u
ResultEntryTextArrived(t, u) ==
  /\ FreeTextArrived(t, u)
  /\ ~HasPredictionSession(u)
  /\ HasResultEntrySession(u)

(***************************************************************************)
(* C11.  /add_result for an Experiment the requester owns: the lookup      *)
(* leads to the overwrite question exactly when both actual fields of the  *)
(* row are populated, and to the display of the record with the size       *)
(* prompt otherwise; when the message is sent the user's session is        *)
(* AwaitingOverwriteConfirmation, respectively AwaitingActualSize, and its *)
(* payload holds the experiment id of the command.  (A failed lookup or    *)
(* send is the catch block's case.)                                        *)
(***************************************************************************)
C11_AddResultOpensSession ==
  [][\A t \in Tasks, u \in Users, e \in ExperimentIds :
       /\ ( /\ Stepped(t, "sa_find")
            /\ tasks[t].user = u /\ tasks[t].experimentId = e
            /\ Owned(e, u)
            /\ After(t).pc # "sa_catch" )
          => /\ After(t).pc = IF BothPopulated(e)
                              THEN "sa_send_overwrite_question"
                              ELSE "sa_send_size_prompt"
             /\ addResultState' = addResultState
       /\ ( /\ Stepped(t, "sa_send_overwrite_question")
            /\ tasks[t].user = u /\ tasks[t].experimentId = e
            /\ After(t).pc # "sa_catch" )
          => /\ After(t).out = <<"overwrite_question">>
             /\ InState(u, "awaiting_overwrite_confirmation")'
             /\ SessionOf(u)'.experimentId = e
       /\ ( /\ Stepped(t, "sa_send_size_prompt")
            /\ tasks[t].user = u /\ tasks[t].experimentId = e
            /\ After(t).pc # "sa_catch" )
          => /\ After(t).out = <<"size_prompt">>
             /\ InState(u, "awaiting_actual_size")'
             /\ SessionOf(u)'.experimentId = e
             /\ SessionOf(u)'.actualSize = Null]_vars

\* the overwrite question was asked for a row with results, and the session
\* names that row
C11_Witness ==
  /\ ended.pc = "done"
  /\ ended.kind = "add_result"
  /\ Sent(ended, "overwrite_question")
  /\ InState(ended.user, "awaiting_overwrite_confirmation")
  /\ SessionOf(ended.user).experimentId = ended.experimentId
  /\ BothPopulated(ended.experimentId)

(***************************************************************************)
(* C12.  In AwaitingOverwriteConfirmation a free text that is the          *)
(* confirmation token up to letter case, and no other, starts the          *)
(* confirmed path, at the end of which the session is AwaitingActualSize;  *)
(* every other free text removes the session at once.  No step of either   *)
(* path changes the Experiment table.  (A failed lookup or send is the     *)
(* catch block's case.)                                                    *)
(***************************************************************************)
\* the spellings of the confirmation token
ConfirmSpellings ==
  {<<c1, c2>> : c1 \in {"d", "D"}, c2 \in {"a", "A"}}

C13_SizeEntry ==
  [][\A t \in Tasks, u \in Users :
       /\ (ResultEntryTextArrived(t, u) /\ InState(u, "awaiting_actual_size"))
          => LET size == parseFloat(trim(After(t).text))
             IN /\ IF Positive(size)
                   THEN /\ After(t).pc = "ha_send_pdi_prompt"
                        /\ InState(u, "awaiting_actual_pdi")'
                        /\ SessionOf(u)'.actualSize = size
                        /\ SessionOf(u)'.experimentId = SessionOf(u).experimentId
                   ELSE /\ After(t).pc = "ha_send_bad_size"
                        /\ HasResultEntrySession(u)'
                        /\ SessionOf(u)' = SessionOf(u)
                /\ experiments' = experiments
       /\ ( /\ tasks[t].pc \in {"ha_send_bad_size", "ha_send_pdi_prompt"}
            /\ tasks'[t] # tasks[t] /\ running'
            /\ After(t).pc # "ha_catch" )
          => /\ After(t).pc = "done"
             /\ Sent(After(t), IF tasks[t].pc = "ha_send_bad_size"
                               THEN "bad_size" ELSE "pdi_prompt")
             /\ addResultState' = addResultState
             /\ \A v \in Users :
                  HasResultEntrySession(v) => SessionOf(v)' = SessionOf(v)
             /\ experiments' = experiments]_vars

\* the size was taken and the PdI prompt sent
C13_Witness ==
  /\ ended.pc = "done"
  /\ Sent(ended, "pdi_prompt")
  /\ InState(ended.user, "awaiting_actual_pdi")
  /\ SessionOf(ended.user).actualSize = parseFloat(trim(ended.text))

(***************************************************************************)
(* C14.  In AwaitingActualPdI a free text that does not parse as a number  *)
(* greater than or equal to 0 is answered by the re-prompt, with session   *)
(* and table as they were; a valid text leads to one save that writes the  *)
(* size held in the session payload and the entered PdI, both, to the row  *)
(* the payload names, after which the user has no session and the summary  *)
(* is sent.  (A failed lookup, save or send is the catch block's case.)    *)
(***************************************************************************)
C14_PdiEntry ==
  [][\A t \in Tasks, u \in Users :
       /\ (ResultEntryTextArrived(t, u) /\ InState(u, "awaiting_actual_pdi"))
          => LET pdi == parseFloat(trim(After(t).text))
             IN /\ IF NonNegative(pdi)
                   THEN /\ After(t).pc = "ha_find_pdi"
                        /\ After(t).actualPdI = pdi
                        /\ After(t).ref = addResultState[u]
                   ELSE After(t).pc = "ha_send_bad_pdi"
                /\ addResultState' = addResultState
                /\ SessionOf(u)' = SessionOf(u)
                /\ experiments' = experiments
       /\ (Stepped(t, "ha_send_bad_pdi") /\ After(t).pc # "ha_catch")
          => /\ After(t).pc = "done"
             /\ Sent(After(t), "bad_pdi")
             /\ addResultState' = addResultState
             /\ \A v \in Users :
                  HasResultEntrySession(v) => SessionOf(v)' = SessionOf(v)
             /\ experiments' = experiments
       /\ (Stepped(t, "ha_find_pdi") /\ After(t).pc # "ha_catch")
          => /\ After(t).pc = "ha_save"
             /\ After(t).row = heap[tasks[t].ref].experimentId
             /\ After(t).actualSize = heap[tasks[t].ref].actualSize
             /\ After(t).actualPdI = tasks[t].actualPdI
             /\ experiments' = experiments
       /\ ( /\ Stepped(t, "ha_save")
            /\ tasks[t].user = u
            /\ After(t).pc # "ha_catch" )
          => /\ After(t).pc = "ha_send_summary"
             /\ experiments' =
                  [experiments EXCEPT ![tasks[t].row].actualSize = tasks[t].actualSize,
                                      ![tasks[t].row].actualPdI = tasks[t].actualPdI]
             /\ ~HasResultEntrySession(u)'
       /\ (Stepped(t, "ha_send_summary") /\ After(t).pc # "ha_catch")
          => /\ After(t).pc = "done"
             /\ Sent(After(t), "result_summary")
             /\ experiments' = experiments]_vars

\* both actual fields were saved and the summary sent
C14_Witness ==
  /\ ended.pc = "done"
  /\ Sent(ended, "result_summary")
  /\ Owned(ended.row, ended.user)
  /\ experiments[ended.row].actualSize = ended.actualSize
  /\ experiments[ended.row].actualPdI = parseFloat(trim(ended.text))
  /\ ~HasResultEntrySession(ended.user)

(***************************************************************************)
(* C15.  A /predict or /add_result of a user who is not in the whitelist   *)
(* is refused: neither the arrival of the command nor the whitelist check  *)
(* adds or changes a session, the handler ends at the check, and what it   *)
(* sends is the refusal.  Every handler that ends at the check, also that  *)
(* of a failed whitelist lookup, leaves the sessions as they were.         *)
(***************************************************************************)
SessionsUnchanged ==
  /\ predictionState' = predictionState
  /\ addResultState' = addResultState
  /\ \A v \in Users : HasResultEntrySession(v) => SessionOf(v)' = SessionOf(v)

C15_NotWhitelistedRefused ==
  [][\A t \in Tasks, u \in Users :
       /\ (Arrived(t) /\ After(t).kind \in {"predict", "add_result"})
          => After(t).pc = "wl_check" /\ SessionsUnchanged
       /\ ( /\ Stepped(t, "wl_check")
            /\ tasks[t].user = u
            /\ u \notin whitelist )
          => /\ After(t).pc \in {"done", "rejected"}
             /\ After(t).pc = "done" => After(t).out = <<"access_denied">>
             /\ SessionsUnchanged
             /\ experiments' = experiments
       /\ (Stepped(t, "wl_check") /\ After(t).pc \in {"done", "rejected"})
          => SessionsUnchanged]_vars

\* a user who is not in the whitelist was refused and has no session
C15_Witness ==
  /\ ended.pc = "done"
  /\ ended.kind \in {"predict", "add_result"}
  /\ ended.user \notin whitelist
  /\ Sent(ended, "access_denied")
  /\ ~HasPredictionSession(ended.user)
  /\ ~HasResultEntrySession(ended.user)

(***************************************************************************)
(* The Prediction Gateway on its own: one call of makeModelPrediction      *)
(* (predictionService.js), the child process it spawns, and the handler    *)
(* that awaits it (handlePredictionResponse from its call of the gateway). *)
(***************************************************************************)
\* setTimeout(..., 15000)
timeoutMs == 15000
\* the step in which time is observed
tickMs == 5000

\* what the predictor may write to its standard output, token by token
Documents ==
  {<<"{", "size", "pdi", "}">>, <<"{", "error", "}">>,
   <<"{", "size", "pdi", "error", "}">>, <<"{", "size", "}">>,
   <<"{", "}">>, <<"oops">>}
\* what it may write to its standard error
Diagnostics == {<<>>, <<"Traceback">>}
JSONKeys == {"size", "pdi", "error"}

\* JSON.parse(output): a SyntaxError unless the output is a document
IsJSON(output) ==
  /\ Len(output) >= 2
  /\ output[1] = "{"
  /\ output[Len(output)] = "}"
  /\ \A i \in 2..(Len(output) - 1) : output[i] \in JSONKeys
\* the fields of the parsed object
Keys(output) == {output[i] : i \in 2..(Len(output) - 1)}

\* resolve and reject of the promise: only the first settles it, and the
\* awaiting handler goes on from its await
resolve(c, result) ==
  IF c.promise = "pending"
  THEN [c EXCEPT !.promise = "resolved", !.value = result,
                 !.caller.pc = "create"]
  ELSE c
reject(c, error, message) ==
  IF c.promise = "pending"
  THEN [c EXCEPT !.promise = "rejected", !.error = error,
                 !.message = message, !.caller.pc = "catch"]
  ELSE c

\* handlePredictionResponse calls makeModelPrediction(parameters): the child
\* is spawned and the timer armed; todo and diagnostics are what this child
\* is going to write, started whether it could be started
makeModelPrediction(todo, diagnostics, started) ==
  /\ call.promise = "none"
  /\ call' = [NoCall EXCEPT
                !.promise = "pending",
                !.py = IF started THEN "running" ELSE "unstarted",
                !.spawns = 1, !.timer = TRUE,
                !.todo = todo, !.diagnostics = diagnostics,
                !.caller = [pc |-> "gateway", session |-> TRUE,
                            created |-> 0, out |-> <<"processing">>]]
  /\ UNCHANGED <<botVars, validation>>

\* py.stdout.on('data'): output += data
stdoutData ==
  /\ call.py = "running"
  /\ call.todo # <<>>
  /\ call' = [call EXCEPT !.output = Append(@, Head(call.todo)),
                          !.todo = Tail(@)]
  /\ UNCHANGED <<botVars, validation>>

\* py.stderr.on('data'): errorOutput += data
stderrData ==
  /\ call.py = "running"
  /\ call.diagnostics # <<>>
  /\ call' = [call EXCEPT !.errorOutput = @ \o call.diagnostics,
                          !.diagnostics = <<>>]
  /\ UNCHANGED <<botVars, validation>>

\* the child exits by itself
processExited(code) ==
  /\ call.py = "running"
  /\ call' = [call EXCEPT !.py = "exited", !.code = code]
  /\ UNCHANGED <<botVars, validation>>

\* fault: a timer that is due as soon as it is armed
timerDueAtOnce(c) == c.timer
\* time passes while the timer is armed and not due
timerDue(c) == c.timer /\ c.elapsed >= timeoutMs
Tick ==
  /\ call.timer
  /\ ~timerDue(call)
  /\ call' = [call EXCEPT !.elapsed = @ + tickMs]
  /\ UNCHANGED <<botVars, validation>>

\* fault: the timer callback without py.kill
killOmitted(c) == c
\* py.kill('SIGKILL')
kill(c) ==
  IF c.py = "running" THEN [c EXCEPT !.py = "killed", !.code = "null"] ELSE c

\* the timer callback: the child is killed and the promise rejected
timeoutFired ==
  /\ timerDue(call)
  /\ call' = reject([kill(call) EXCEPT !.timer = FALSE], "timeout", <<>>)
  /\ UNCHANGED <<botVars, validation>>

\* what py.on('close') makes of exit code and output
closeHandler(c) ==
  IF c.code # "0" THEN reject(c, "process", c.errorOutput)
  ELSE IF ~IsJSON(c.output) THEN reject(c, "parse", <<>>)
  ELSE IF "error" \in Keys(c.output) THEN reject(c, "model", <<"error">>)
  ELSE resolve(c, Keys(c.output))

\* py.on('close'): the child has ended and its streams are closed
processClosed ==
  /\ call.py \in {"exited", "killed"}
  /\ ~call.closed
  /\ call' = closeHandler([call EXCEPT !.closed = TRUE, !.timer = FALSE])
  /\ UNCHANGED <<botVars, validation>>

\* py.on('error'): the child could not be started
spawnFailed ==
  /\ call.py = "unstarted"
  /\ call' = reject([call EXCEPT !.py = "failed", !.timer = FALSE], "spawn", <<>>)
  /\ UNCHANGED <<botVars, validation>>

\* the handler after await Experiment.create: the summary is formatted
\* (prediction.size.toFixed, prediction.pdi.toFixed) and the edit awaited
callerCreated ==
  /\ call.caller.pc = "create"
  /\ \/ call' = [call EXCEPT !.caller.created = @ + 1,
                             !.caller.pc = IF {"size", "pdi"} \subseteq call.value
                                           THEN "edit" ELSE "catch"]
     \/ call' = [call EXCEPT !.caller.pc = "catch"]
  /\ UNCHANGED <<botVars, validation>>

\* the handler after await bot.editMessageText
callerEdited ==
  /\ call.caller.pc = "edit"
  /\ \/ call' = [call EXCEPT !.caller.out = Append(@, "edit_summary"),
                             !.caller.session = FALSE, !.caller.pc = "done"]
     \/ call' = [call EXCEPT !.caller.pc = "catch"]
  /\ UNCHANGED <<botVars, validation>>

\* the handler's catch block after await bot.sendMessage
callerCatchSent ==
  /\ call.caller.pc = "catch"
  /\ \/ call' = [call EXCEPT !.caller.out = Append(@, "prediction_failed"),
                             !.caller.session = FALSE, !.caller.pc = "done"]
     \/ call' = [call EXCEPT !.caller.pc = "rejected"]
  /\ UNCHANGED <<botVars, validation>>

GatewayNext ==
  \/ \E todo \in Documents, diagnostics \in Diagnostics, started \in BOOLEAN :
       makeModelPrediction(todo, diagnostics, started)
  \/ stdoutData
  \/ stderrData
  \/ \E code \in {"0", "1"} : processExited(code)
  \/ Tick
  \/ timeoutFired
  \/ processClosed
  \/ spawnFailed
  \/ callerCreated
  \/ callerEdited
  \/ callerCatchSent

GatewaySpec == Init /\ [][GatewayNext]_vars

\* the step in which the call is rejected with 'Prediction timeout'
TimedOut == call.promise = "pending" /\ call'.error = "timeout"
\* the step of the close handler on a call not yet settled
Classified == call.promise = "pending" /\ ~call.closed /\ call'.closed
RequiredFields == {"size", "pdi"}

\* C16: a pending call always has its 15 s timer armed and never waits
\* beyond it; the call is rejected with the timeout error only once 15 s have
\* passed, and in that step a running predictor is killed; after a timeout no
\* Experiment is created for the submission and, once the failure report is
\* delivered, the caller's Prediction session is removed.
C16_TimeoutKillsAndFails ==
  [][/\ call'.promise = "pending" =>
          call'.timer /\ call'.elapsed < timeoutMs + tickMs
     /\ TimedOut =>
          /\ call.elapsed >= timeoutMs
          /\ call'.promise = "rejected"
          /\ call'.py # "running"
          /\ call.py = "running" => call'.py = "killed"
     /\ call'.error = "timeout" =>
          /\ call'.caller.created = 0
          /\ call'.caller.pc \in {"catch", "done", "rejected"}
          /\ call'.caller.pc = "done" =>
               /\ ~call'.caller.session
               /\ call'.caller.out = <<"processing", "prediction_failed">>]_vars
C16_Witness ==
  /\ call.error = "timeout"
  /\ call.py = "killed"
  /\ call.elapsed >= timeoutMs
  /\ call.caller.pc = "done"
  /\ ~call.caller.session
  /\ call.caller.created = 0

\* C17: a call spawns exactly one process, and whenever the call is settled
\* (resolved or rejected, whatever the cause) that process is not running.
C17_OneProcessNotLeftRunning ==
  /\ call.spawns <= 1
  /\ call.promise # "none" => call.spawns = 1
  /\ call.promise \in {"resolved", "rejected"} => call.py # "running"
C17_Witness ==
  /\ call.promise = "resolved"
  /\ call.spawns = 1
  /\ call.py = "exited"

\* C18 (as stated): a finished run is classified as: nonzero exit -> process
\* error with the captured stderr; exit 0 with output that is not JSON or
\* lacks size or pdi -> parse error; exit 0 with JSON with an error field ->
\* model error; only exit 0 with JSON holding the required fields and no
\* error field resolves.
C18_Classification ==
  [][Classified =>
       /\ call.code # "0" =>
            /\ call'.promise = "rejected"
            /\ call'.error = "process"
            /\ call'.message = call.errorOutput
       /\ (call.code = "0" /\ IsJSON(call.output) /\ "error" \in Keys(call.output)) =>
            call'.promise = "rejected" /\ call'.error = "model"
       /\ (call.code = "0" /\ ~IsJSON(call.output)) =>
            call'.promise = "rejected" /\ call'.error = "parse"
       /\ (call.code = "0" /\ IsJSON(call.output)
             /\ "error" \notin Keys(call.output)
             /\ ~(RequiredFields \subseteq Keys(call.output))) =>
            call'.promise = "rejected" /\ call'.error = "parse"
       /\ call'.promise = "resolved" =>
            /\ call.code = "0"
            /\ IsJSON(call.output)
            /\ RequiredFields \subseteq Keys(call.output)
            /\ "error" \notin Keys(call.output)]_vars

(***************************************************************************)
(* The Parameter Validator on its own: validateParameters applied to the   *)
(* token sequences of bounded sets.                                        *)
(***************************************************************************)
MaxTokens == 9
\* tokens of any kind: a number, not a number, the empty token of "".split
AnyTokens == {<<"1">>, <<"x">>, <<>>}
RECURSIVE TokenSeqs(_)
TokenSeqs(n) ==
  IF n = 0 THEN {<<>>}
  ELSE {Append(p, tok) : p \in TokenSeqs(n - 1), tok \in AnyTokens}
CountInputs == UNION {TokenSeqs(n) : n \in 0..MaxTokens}

\* per field, tokens inside and outside its range
EuTokens == {<<"1">>, <<"-", "1">>, <<"x">>}
PhenTokens == {<<"0", ".", "5">>, <<"-", "1">>}
LigandTokens == {<<"3">>, <<"-", "0", ".", "5">>}
LigandTypeTokens == {<<"2">>, <<"4">>, <<"-", "1">>, <<"2", ".", "5">>}
PhTokens == {<<"1", "1">>, <<"7">>, <<"6">>, <<"1", "2">>}
VolumeTokens == {<<"5", "0", "0">>, <<"0">>}
TimeTokens == {<<"3", "0">>, <<"0">>, <<"-", "3">>}
RateTokens == {<<"1", "0">>, <<"0">>, <<"x">>}
SevenTokens ==
  {<<eu, phen, lig, type, ph, vol, time>> :
     eu \in EuTokens, phen \in PhenTokens, lig \in LigandTokens,
     type \in LigandTypeTokens, ph \in PhTokens, vol \in VolumeTokens,
     time \in TimeTokens}
FieldInputs == SevenTokens \cup {Append(p, rate) : p \in SevenTokens, rate \in RateTokens}

\* const paramArray = msg.text.trim().split(/\s+/)...: never an empty array
ParamArrays == (CountInputs \cup FieldInputs) \ {<<>>}
paramArrayRead ==
  /\ ~validation.called
  /\ validation.paramArray = <<>>
  /\ \E paramArray \in ParamArrays :
       validation' = [validation EXCEPT !.paramArray = paramArray]
  /\ UNCHANGED <<botVars, call>>

\* const validationResult = validateParameters(paramArray)
Validate ==
  /\ ~validation.called
  /\ validation' = [validation EXCEPT
                      !.called = TRUE,
                      !.result = validateParameters(validation.paramArray)]
  /\ UNCHANGED <<botVars, call>>

\* const parameters = convertParametersToObject(paramArray), after a
\* successful validation
Convert ==
  /\ validation.called
  /\ validation.result.valid
  /\ ~validation.converted
  /\ validation' = [validation EXCEPT
                      !.converted = TRUE,
                      !.parameters = convertParametersToObject(validation.paramArray)]
  /\ UNCHANGED <<botVars, call>>

ValidatorNext ==
  \/ paramArrayRead
  \/ Validate
  \/ Convert

ValidatorSpec == Init /\ [][ValidatorNext]_vars

\* the constraints of the fields of a parameter record
FieldConstraints(parameters) ==
  /\ NonNegative(parameters.euConcentration)
  /\ NonNegative(parameters.phenanthrolineConcentration)
  /\ NonNegative(parameters.ligandConcentration)
  /\ parameters.ligandType \in {Num(v) : v \in 0..3}
  /\ parameters.phBsa \in {Num(v) : v \in 7..11}
  /\ Positive(parameters.additionVolume)
  /\ Positive(parameters.additionTime)
  /\ Positive(parameters.additionRate)

\* C19: validate reports the count error for every token sequence whose
\* length is neither 7 nor 8, whatever its tokens, and never for a sequence
\* of length 7 or 8.
C19_CountError ==
  validation.called =>
    /\ Len(validation.paramArray) \notin {7, 8} =>
         ~validation.result.valid /\ validation.result.error = "count"
    /\ Len(validation.paramArray) \in {7, 8} =>
         validation.result.error # "count"
C19_Witness ==
  /\ validation.called
  /\ validation.paramArray = [i \in 1..9 |-> <<"1">>]
  /\ validation.result = Invalid("count")

FieldOrder ==
  <<"euConcentration", "phenanthrolineConcentration", "ligandConcentration",
    "ligandType", "phBsa", "additionVolume", "additionTime", "additionRate">>
\* the constraint of the i-th field
FieldHolds(parameters, i) ==
  CASE i = 1 -> NonNegative(parameters.euConcentration)
    [] i = 2 -> NonNegative(parameters.phenanthrolineConcentration)
    [] i = 3 -> NonNegative(parameters.ligandConcentration)
    [] i = 4 -> parameters.ligandType \in {Num(v) : v \in 0..3}
    [] i = 5 -> parameters.phBsa \in {Num(v) : v \in 7..11}
    [] i = 6 -> Positive(parameters.additionVolume)
    [] i = 7 -> Positive(parameters.additionTime)
    [] i = 8 -> Positive(parameters.additionRate)
ViolatedFields(parameters) == {i \in 1..8 : ~FieldHolds(parameters, i)}
FirstViolated(parameters) ==
  CHOOSE i \in ViolatedFields(parameters) :
    \A j \in ViolatedFields(parameters) : i <= j

\* C21: for 7 or 8 tokens with one or more invalid fields, validate fails
\* with one error, the one of the first invalid field in the order eu,
\* phenanthroline, ligand concentration, ligand type, pH, volume, time, rate.
C21_FirstInvalidFieldReported ==
  (/\ validation.called
   /\ Len(validation.paramArray) \in {7, 8}
   /\ ViolatedFields(convertParametersToObject(validation.paramArray)) # {}) =>
    /\ ~validation.result.valid
    /\ validation.result.error =
         FieldOrder[FirstViolated(convertParametersToObject(validation.paramArray))]
C21_Witness ==
  /\ validation.called
  /\ Len(validation.paramArray) = 8
  /\ ViolatedFields(convertParametersToObject(validation.paramArray)) = {2, 4, 7, 8}
  /\ validation.result = Invalid("phenanthrolineConcentration")

\* x * y = z for three finite numbers
IsProduct(x, y, z) ==
  /\ x.k = "num" /\ y.k = "num" /\ z.k = "num"
  /\ x.n * y.n * z.d = z.n * x.d * y.d

\* C22: the record of a valid input carries rate = volume / time for 7
\* tokens and the value of the 8th token, not derived, for 8 tokens; it is
\* the rate that validate checked.
C22_RateOfRecord ==
  validation.converted =>
    /\ Len(validation.paramArray) = 7 =>
         IsProduct(validation.parameters.additionRate,
                   validation.parameters.additionTime,
                   validation.parameters.additionVolume)
    /\ Len(validation.paramArray) = 8 =>
         validation.parameters.additionRate = parseFloat(validation.paramArray[8])
    /\ validation.parameters.additionRate = checkedRate(validation.paramArray)
    /\ validation.parameters.additionVolume = parseFloat(validation.paramArray[6])
    /\ validation.parameters.additionTime = parseFloat(validation.paramArray[7])
C22_Witness ==
  /\ validation.converted
  /\ Len(validation.paramArray) = 8
  /\ validation.parameters.additionRate = Num(10)
  /\ validation.parameters.additionVolume = Num(500)
  /\ validation.parameters.additionTime = Num(30)

\* the new messages a controller sends to the chat (an edit is not one)
PredictionMessages == {"prediction_cancelled", "invalid_parameters", "processing",
                       "prediction_failed"}
ResultEntryMessages == {"add_result_cancelled", "bad_size", "pdi_prompt", "bad_pdi",
                        "result_summary", "update_prompt", "add_result_failed"}
\* how many messages of the set the handler sent
CountSent(tk, messages) ==
  Cardinality({i \in 1..Len(tk.out) : tk.out[i] \in messages})
\* user u has a session of the flow when the step begins
PredictionOpen(u) == predictionState[u] = "awaiting_parameters"
ResultEntryOpen(u) == addResultState[u] # 0

\* C23 (as stated): a free-text message that a controller handles gets
\* exactly one new outbound message from that controller, on every outcome:
\* when the handler of a text message has returned, each controller that
\* answered has sent one message and no more.
C23_OneMessagePerStep ==
  (ended.kind = "text" /\ ended.pc = "done") =>
    /\ CountSent(ended, PredictionMessages) <= 1
    /\ CountSent(ended, ResultEntryMessages) <= 1

\* the step in which the handler of slot t runs predictionState.delete
PredictionCleared(t) ==
  \/ Stepped(t, "wl_check") /\ After(t).pc = "sp_send_instructions"
  \/ Stepped(t, "hp_edit") /\ Sent(After(t), "edit_summary")
  \/ Stepped(t, "hp_catch") /\ Sent(After(t), "prediction_failed")
\* the step in which the handler of slot t runs addResultState.delete after
\* an await
ResultEntryCleared(t) ==
  \/ Stepped(t, "ha_save") /\ After(t).pc = "ha_send_summary"
  \/ Stepped(t, "ha_catch") /\ Sent(After(t), "add_result_failed")

\* C24: clearing the session of a user who has none (a second clear after a
\* first one included) leaves the whole session store as it was and does not
\* fail: the handler goes on as it does after any clear.
C24_ClearIsIdempotent ==
  [][\A t \in Tasks, u \in Users :
       /\ (PredictionCleared(t) /\ tasks[t].user = u /\ ~PredictionOpen(u)) =>
            /\ predictionState' = predictionState
            /\ After(t).pc \notin {"hp_catch", "sp_catch", "rejected"}
       /\ (ResultEntryCleared(t) /\ tasks[t].user = u /\ ~ResultEntryOpen(u)) =>
            /\ addResultState' = addResultState
            /\ After(t).pc \in {"ha_send_summary", "done"}]_vars
\* two submissions of one /predict: the first has cleared the session, the
\* second has failed at the gateway and cleared it again
C24_Witness ==
  /\ received = 3
  /\ \A t \in Tasks : tasks[t] = IdleTask
  /\ ended.kind = "text"
  /\ ended.pc = "done"
  /\ ended.error = "gateway"
  /\ Sent(ended, "prediction_failed")
  /\ Len(experiments) = 2
  /\ \A u \in Users : ~PredictionOpen(u) /\ ~ResultEntryOpen(u)

\* the step in which handleAddResultResponse is called for the message of
\* slot t: at once, or when handlePredictionResponse has returned
ResultEntryCalled(t, u) ==
  \/ TextArrived(t, u) /\ ~startsWith(After(t).text, "/") /\ ~PredictionOpen(u)
  \/ /\ tasks[t].user = u
     /\ \/ Stepped(t, "hp_send_cancelled") \/ Stepped(t, "hp_send_invalid")
        \/ Stepped(t, "hp_edit") \/ Stepped(t, "hp_catch")
     /\ After(t).pc \notin {"hp_catch", "rejected"}

\* C25: a free-text message of a user without a session of a flow is a
\* no-op for the controller of that flow: it changes neither the session
\* store nor the Experiments, calls no gateway and sends nothing.
C25_NoSessionNoOp ==
  [][\A t \in Tasks, u \in Users :
       /\ (TextArrived(t, u) /\ ~PredictionOpen(u)) =>
            /\ predictionState' = predictionState
            /\ experiments' = experiments
            /\ After(t).pc \notin PredictionPcs
            /\ CountSent(After(t), PredictionMessages) = 0
       /\ (ResultEntryCalled(t, u) /\ ~ResultEntryOpen(u)) =>
            /\ addResultState' = addResultState
            /\ experiments' = experiments
            /\ After(t).pc = "done"
            /\ CountSent(After(t), ResultEntryMessages) = 0]_vars
\* the first message the bot gets is a text: nothing was done for it
C25_Witness ==
  /\ received = 1
  /\ ended.kind = "text"
  /\ ~startsWith(ended.text, "/")
  /\ ended.pc = "done"
  /\ ended.out = <<>>
  /\ \A u \in Users : ~PredictionOpen(u) /\ ~ResultEntryOpen(u)

\* C26 (as stated): the Prediction session set by a /predict command is not
\* removed by a submission that was accepted before that command was
\* handled: no step of such a submission takes the user's session away.
C26_NewSessionSurvivesOldSubmission ==
  [][\A t \in Tasks, u \in Users :
       (/\ <<t, 0>> \in superseded
        /\ tasks[t].user = u
        /\ PredictionOpen(u)
        /\ tasks'[t] # tasks[t]) =>
         predictionState'[u] = "awaiting_parameters"]_vars

\* C27 (as stated): once the cancellation of a user's Result-Entry session
\* was acknowledged, the user has no Result-Entry session until a new
\* /add_result command of theirs: no handler of a chat message gives the
\* session back.
C27_CancelledStaysCancelled ==
  [][\A u \in cancelled :
       (addResultState[u] = 0 /\ addResultState'[u] # 0) =>
         \E t \in Tasks : tasks[t].user = u /\ tasks[t].kind = "add_result"
                          /\ tasks'[t] # tasks[t]]_vars

\* C28: a row of the Experiment table changes only in a step of a handler
\* of a message of the row's owner, the save of handleAddResultResponse;
\* the step writes the two actual fields, the PdI of the owner's message and
\* the size kept for the owner's session, and nothing else.
C28_OnlyOwnerWritesResults ==
  [][\A e \in 1..Len(experiments) :
       experiments'[e] # experiments[e] =>
         \E t \in Tasks :
           /\ Stepped(t, "ha_save")
           /\ tasks[t].kind = "text"
           /\ tasks[t].user = experiments[e].userId
           /\ tasks[t].row = e
           /\ experiments'[e] = [experiments[e] EXCEPT
                                   !.actualSize = tasks[t].actualSize,
                                   !.actualPdI = tasks[t].actualPdI]]_vars
\* the owner's results were saved and the summary sent
C28_Witness ==
  /\ ended.kind = "text"
  /\ ended.pc = "done"
  /\ Sent(ended, "result_summary")
  /\ Owned(ended.row, ended.user)
  /\ experiments[ended.row].actualPdI = ended.actualPdI
  /\ experiments[ended.row].actualSize = ended.actualSize
  /\ ended.actualPdI # Null

\* the step in which the handler of slot t writes the Experiment table:
\* a row is created, or the actual fields of a row are saved
Wrote(t) ==
  /\ experiments' # experiments
  /\ Stepped(t, "hp_create") \/ Stepped(t, "ha_save")

\* C29 (as stated): no Experiment is created, and no actual fields are
\* written, for a user who is not on the whitelist at the moment of the
\* write.
C29_WritesOnlyForWhitelisted ==
  [][\A t \in Tasks : Wrote(t) => tasks[t].user \in whitelist]_vars

\* C30 (as stated): when the handling of a parameter message has created
\* an Experiment, it ends with the summary shown and without the failure
\* report.
C30_CreatedMeansSummaryShown ==
  (ended.kind = "text" /\ ended.pc = "done" /\ ended.created # 0) =>
    /\ Sent(ended, "edit_summary")
    /\ ~Sent(ended, "prediction_failed")

=============================================================================
